---- MODULE Spec2Model ----
(***************************************************************************)
(* State-machine model of src/api/modes.ts of Dance: the temporary mode    *)
(* switch toMode, and the selection commands save, restore_withCurrent,    *)
(* extendToLines, trimLines and changeDirection.                           *)
(*                                                                         *)
(* Five specifications share the module, one per group of commands:        *)
(*   Spec       toMode and the recorder / visibility events it listens to  *)
(*   SpecMerge  restore_withCurrent                                        *)
(*   SpecLines  trimLines and extendToLines                                *)
(*   SpecDir    changeDirection                                            *)
(*   SpecSave   save                                                       *)
(* Each leaves the variables of the other groups at their initial value.   *)
(***************************************************************************)
EXTENDS Integers, Sequences, FiniteSets

VARIABLES
  \* ---- toMode -----------------------------------------------------------
  modes,        \* extension.modes: name -> "absent" | "live" | "pending"
  mode,         \* editorState.mode, the active mode
  pc,           \* "idle" | "deferred" (setImmediate pending) | "installed"
  target,       \* the mode of the counted switch
  initialMode,  \* the mode recorded at line 27
  count,        \* the closure's count, decremented by the listener
  disposables,  \* the AutoDisposable's list, in insertion order
  disposed,     \* the AutoDisposable has been disposed of
  pendingOwn,   \* the mode-change entry of the switch itself is not yet appended
  result,       \* outcome of the last toMode call: "none" | "ok" | "error"
  lastCall,     \* arguments of the last toMode call
  obs,          \* observation counters (history), see ObsInit
  \* ---- restore_withCurrent ----------------------------------------------
  selections,   \* _.selections
  saved,        \* register.getSelections(), <<>> when the register holds none
  merge,        \* arguments and outcome of the last restore_withCurrent call
  \* ---- trimLines / extendToLines -----------------------------------------
  lsel,         \* _.selections
  lorig,        \* the selections before the first command
  lops,         \* the commands run so far
  \* ---- changeDirection ----------------------------------------------------
  dsel,         \* _.selections, each with its non-directional mark
  dorig,        \* the selections before the first command
  dops,         \* the direction arguments of the calls so far
  \* ---- save ---------------------------------------------------------------
  regSet,       \* register -> id of the TrackedSelection.Set it holds, 0: none
  sets          \* id -> the life of each TrackedSelection.Set created by save

modeVars  == <<modes, mode, pc, target, initialMode, count, disposables,
               disposed, pendingOwn, result, lastCall, obs>>
mergeVars == <<selections, saved, merge>>
lineVars  == <<lsel, lorig, lops>>
dirVars   == <<dsel, dorig, dops>>
saveVars  == <<regSet, sets>>
vars      == <<modeVars, mergeVars, lineVars, dirVars, saveVars>>

----------------------------------------------------------------------------
(* Bounds                                                                  *)

MaxCount   == 2   \* largest count argument of toMode
NegCounts  == 2   \* toMode is also called with counts -NegCounts .. -1
MaxEntries == 4   \* recorder entries appended in one behaviour
MaxCalls   == 2   \* toMode calls in one behaviour

Range(s) == {s[i] : i \in 1..Len(s)}

----------------------------------------------------------------------------
(* toMode                                                                  *)

ModeNames == {"normal", "insert"}

\* A count argument: omitted (toMode(name)) or an integer (toMode(name, n)).
CountArgs ==
  {[given |-> FALSE, value |-> 0]}
    \cup {[given |-> TRUE, value |-> v] : v \in (0 - NegCounts)..MaxCount}

\* Command identifiers, as sequences of chunks of characters.
Identifiers ==
  { <<"dance.", "updateCount">>, <<"dance.select.", "down">>,
    <<"updateCount", ".extend">> }

\* String.prototype.endsWith
EndsWith(s, suffix) ==
  /\ Len(s) >= Len(suffix)
  /\ SubSeq(s, Len(s) - Len(suffix) + 1, Len(s)) = suffix

\* Recorder entries: ExecuteCommand carries a descriptor identifier.
Entries ==
  {[type |-> "ExecuteCommand", identifier |-> i] : i \in Identifiers}
    \cup {[type |-> t, identifier |-> <<>>] :
            t \in {"ChangeTextEditor", "ChangeTextEditorMode", "InsertAfter"}}

NoEntry == [type |-> "none", identifier |-> <<>>]

\* line 18: mode === undefined || mode.isPendingDeletion
IsMissingMutant(name) == modes[name] = "absent"
IsMissing(name) == modes[name] = "absent" \/ modes[name] = "pending"

\* line 22: !count
IsPlain(cnt) == ~cnt.given \/ cnt.value = 0

\* lines 46-47: an ExecuteCommand whose identifier ends with "updateCount"
IsIgnoredMutant(entry) == FALSE
IsIgnored(entry) ==
  /\ entry.type = "ExecuteCommand"
  /\ EndsWith(entry.identifier, <<"updateCount">>)

\* lines 52-53
IsImmediateMutant(entry) == entry.type = "ChangeTextEditor"
IsImmediate(entry) ==
  entry.type = "ChangeTextEditor" \/ entry.type = "ChangeTextEditorMode"

\* line 58: --count === 0
CountHitsZeroMutant(c) == c - 1 <= 0
CountHitsZero(c) == c - 1 = 0

ObsInit ==
  [ calls         |-> 0,        \* toMode calls
    switchCalls   |-> 0,        \* context.switchToMode calls
    revertCalls   |-> 0,        \* context.switchToMode(initialMode) calls by dispose
    disposeCalls  |-> 0,        \* disposable.dispose() calls
    trigger       |-> "none",   \* what called dispose first
    startCount    |-> 0,        \* the count argument of the counted switch
    nEntries      |-> 0,        \* entries appended to the recorder
    qualSwitch    |-> 0,        \* qualifying entries appended since the switch
    qualInstall   |-> 0,        \* qualifying entries appended since the installation
    ignoredInstall|-> 0,        \* updateCount entries appended since the installation
    cteSwitch     |-> FALSE,    \* a ChangeTextEditor(Mode) entry appended since the switch
    cteInstall    |-> FALSE,    \* ... since the installation
    visibility    |-> FALSE,    \* onVisibilityDidChange fired since the switch
    nObserved     |-> 0,        \* entries handed to the listener
    lastObserved  |-> NoEntry,  \* the last of them
    lateInstall   |-> FALSE ]   \* the listener was installed after a dispose

ModeInit ==
  /\ modes \in {f \in [ModeNames -> {"absent", "live", "pending"}] :
                  f["normal"] = "live"}
  /\ mode = "normal"
  /\ pc = "idle"
  /\ target = "normal"
  /\ initialMode = "normal"
  /\ count = 0
  /\ disposables = <<>>
  /\ disposed = FALSE
  /\ pendingOwn = FALSE
  /\ result = "none"
  /\ lastCall = [name |-> "normal", cnt |-> [given |-> FALSE, value |-> 0]]
  /\ obs = ObsInit

\* AutoDisposable.dispose(): disposes of every wrapped disposable, in order,
\* and empties the list.  "revert" is the disposable of lines 31-35.
Dispose(by, o) ==
  LET reverts == "revert" \in Range(disposables) IN
  /\ mode' = IF reverts THEN initialMode ELSE mode
  /\ disposables' = <<>>
  /\ disposed' = TRUE
  /\ obs' = [o EXCEPT
       !.disposeCalls = @ + 1,
       !.trigger = IF @ = "none" THEN by ELSE @,
       !.revertCalls = IF reverts THEN @ + 1 ELSE @,
       !.switchCalls = IF reverts THEN @ + 1 ELSE @]

\* lines 45-61: the listener of extension.recorder.onDidAddEntry
OnDidAddEntry(entry, o) ==
  IF IsIgnored(entry)
    THEN /\ obs' = o
         /\ UNCHANGED <<mode, disposables, disposed, count>>
  ELSE IF IsImmediate(entry)
    THEN /\ Dispose("entry", o)
         /\ UNCHANGED count
  ELSE /\ count' = count - 1
       /\ IF CountHitsZero(count)
            THEN Dispose("count", o)
            ELSE /\ obs' = o
                 /\ UNCHANGED <<mode, disposables, disposed>>

\* lines 13-63
toMode(modeName, cnt) ==
  /\ pc = "idle"
  /\ obs.calls < MaxCalls
  /\ lastCall' = [name |-> modeName, cnt |-> cnt]
  /\ IF IsMissing(modeName)
       THEN /\ result' = "error"
            /\ obs' = [obs EXCEPT !.calls = @ + 1]
            /\ UNCHANGED <<mode, pc, target, initialMode, count, disposables,
                           disposed, pendingOwn>>
     ELSE IF IsPlain(cnt)
       THEN /\ mode' = modeName
            /\ result' = "ok"
            /\ obs' = [obs EXCEPT !.calls = @ + 1, !.switchCalls = @ + 1]
            /\ UNCHANGED <<pc, target, initialMode, count, disposables,
                           disposed, pendingOwn>>
     ELSE /\ initialMode' = mode
          /\ disposables' = <<"visibility", "revert">>
          /\ disposed' = FALSE
          /\ mode' = modeName
          /\ target' = modeName
          /\ count' = cnt.value
          /\ pendingOwn' = TRUE
          /\ pc' = "deferred"
          /\ result' = "ok"
          /\ obs' = [obs EXCEPT !.calls = @ + 1, !.switchCalls = @ + 1,
                                !.startCount = cnt.value]
  /\ UNCHANGED modes

ToModeCall ==
  /\ \E n \in ModeNames, c \in CountArgs : toMode(n, c)
  /\ UNCHANGED <<mergeVars, lineVars, dirVars, saveVars>>

\* The mode-change entry of the switch itself reaches the recorder before the
\* setImmediate callback runs (lines 38-40); no listener is installed yet.
AppendOwnModeEntry ==
  /\ pc = "deferred"
  /\ pendingOwn
  /\ pendingOwn' = FALSE
  /\ UNCHANGED <<modes, mode, pc, target, initialMode, count, disposables,
                 disposed, result, lastCall, obs>>
  /\ UNCHANGED <<mergeVars, lineVars, dirVars, saveVars>>

\* lines 41-45: the setImmediate callback adds the recorder subscription to
\* the AutoDisposable.  Added to one already disposed of, it is kept.
InstallKept ==
  /\ pc = "deferred"
  /\ ~pendingOwn
  /\ pc' = "installed"
  /\ disposables' = Append(disposables, "recorder")
  /\ obs' = [obs EXCEPT !.lateInstall = disposed]
  /\ UNCHANGED <<modes, mode, target, initialMode, count, disposed,
                 pendingOwn, result, lastCall>>
  /\ UNCHANGED <<mergeVars, lineVars, dirVars, saveVars>>

\* ... or disposed of at once.
InstallDropped ==
  /\ pc = "deferred"
  /\ ~pendingOwn
  /\ disposed
  /\ pc' = "installed"
  /\ obs' = [obs EXCEPT !.lateInstall = TRUE]
  /\ UNCHANGED <<modes, mode, target, initialMode, count, disposables,
                 disposed, pendingOwn, result, lastCall>>
  /\ UNCHANGED <<mergeVars, lineVars, dirVars, saveVars>>

\* The recorder appends an entry and notifies its listeners.
Counted(entry, o) ==
  LET qualifies == ~(entry.type = "ExecuteCommand"
                       /\ EndsWith(entry.identifier, <<"updateCount">>))
                   /\ entry.type \notin {"ChangeTextEditor", "ChangeTextEditorMode"}
      cte == entry.type \in {"ChangeTextEditor", "ChangeTextEditorMode"}
      upd == entry.type = "ExecuteCommand" /\ ~qualifies
  IN [o EXCEPT
       !.nEntries = @ + 1,
       !.qualSwitch = IF pc # "idle" /\ qualifies THEN @ + 1 ELSE @,
       !.qualInstall = IF pc = "installed" /\ qualifies THEN @ + 1 ELSE @,
       !.ignoredInstall = IF pc = "installed" /\ upd THEN @ + 1 ELSE @,
       !.cteSwitch = @ \/ (pc # "idle" /\ cte),
       !.cteInstall = @ \/ (pc = "installed" /\ cte)]

AppendEntry(entry) ==
  /\ obs.nEntries < MaxEntries
  /\ IF "recorder" \in Range(disposables)
       THEN OnDidAddEntry(entry,
              [Counted(entry, obs) EXCEPT !.nObserved = @ + 1,
                                          !.lastObserved = entry])
       ELSE /\ obs' = Counted(entry, obs)
            /\ UNCHANGED <<mode, disposables, disposed, count>>
  /\ UNCHANGED <<modes, pc, target, initialMode, pendingOwn, result, lastCall>>

RecordEntry ==
  /\ \E e \in Entries : AppendEntry(e)
  /\ UNCHANGED <<mergeVars, lineVars, dirVars, saveVars>>

\* line 30: editorState.onVisibilityDidChange fires while subscribed
VisibilityDidChange ==
  /\ "visibility" \in Range(disposables)
  /\ Dispose("visibility", [obs EXCEPT !.visibility = TRUE])
  /\ UNCHANGED <<modes, pc, target, initialMode, count, pendingOwn, result,
                 lastCall>>
  /\ UNCHANGED <<mergeVars, lineVars, dirVars, saveVars>>

ModeNext ==
  \/ ToModeCall
  \/ AppendOwnModeEntry
  \/ InstallKept
  \/ InstallDropped
  \/ RecordEntry
  \/ VisibilityDidChange

----------------------------------------------------------------------------
(* Positions and selections over a document                                 *)

\* The text length of each line of the document (lines end with "\n").
LineLens == <<1, 0, 1>>
lineCount == Len(LineLens)

Pos(l, c) == [line |-> l, character |-> c]

Positions ==
  UNION {{Pos(l, c) : c \in 0..LineLens[l + 1]} : l \in 0..(lineCount - 1)}

isBefore(p, q) ==
  p.line < q.line \/ (p.line = q.line /\ p.character < q.character)
isBeforeOrEqual(p, q) == isBefore(p, q) \/ p = q
isAfter(p, q) == isBefore(q, p)
isAfterOrEqual(p, q) == isAfter(p, q) \/ p = q

Selection(anchor, active) == [anchor |-> anchor, active |-> active]
start(sel) == IF isBefore(sel.active, sel.anchor) THEN sel.active ELSE sel.anchor
end(sel) == IF isBefore(sel.active, sel.anchor) THEN sel.anchor ELSE sel.active
isReversed(sel) == isBefore(sel.active, sel.anchor)
isEmpty(sel) == sel.anchor = sel.active

\* Selections.fromStartEnd(start, end, isReversed)
fromStartEnd(s, e, reversed) ==
  IF reversed THEN Selection(e, s) ELSE Selection(s, e)

\* TextDocument.offsetAt: the characters before the position, one per line break.
RECURSIVE LineOffset(_)
LineOffset(l) == IF l = 0 THEN 0 ELSE LineOffset(l - 1) + LineLens[l] + 1
offsetAt(p) == LineOffset(p.line) + p.character

MaxSelections == 2   \* longest selection list drawn as an input

\* The sequences of 0..n elements of S.
RECURSIVE SeqsUpTo(_, _)
SeqsUpTo(S, n) ==
  IF n = 0 THEN {<<>>}
  ELSE LET shorter == SeqsUpTo(S, n - 1) IN
       shorter \cup {Append(q, x) : q \in {t \in shorter : Len(t) = n - 1}, x \in S}

\* Selections.update.byIndex: each selection is replaced by what the mapper
\* returns for it, a selection the mapper returns undefined for is dropped.
\* A mapper returns <<>> for undefined and <<selection>> otherwise; `mapped`
\* holds what the mapper returned for each index.
RECURSIVE UpdateByIndex(_)
UpdateByIndex(mapped) ==
  IF Len(mapped) = 0 THEN <<>>
  ELSE Head(mapped) \o UpdateByIndex(Tail(mapped))

----------------------------------------------------------------------------
(* restore_withCurrent                                                      *)

MergePositions == {Pos(0, 1), Pos(1, 0)}
MergeSelections == {Selection(a, b) : a \in MergePositions, b \in MergePositions}

\* The prompt's choices, by index (lines 186-194).
Rules == 0..6

spanLength(sel) == offsetAt(end(sel)) - offsetAt(start(sel))

\* lines 212-268: one index-aligned pair under rules 1..6
Combine(type, a, b) ==
  CASE type = 1 ->
         Selection(IF isBefore(start(a), start(b)) THEN start(a) ELSE start(b),
                   IF isAfter(end(a), end(b)) THEN end(a) ELSE end(b))
    [] type = 2 ->
         Selection(IF isAfter(start(a), start(b)) THEN start(a) ELSE start(b),
                   IF isBefore(end(a), end(b)) THEN end(a) ELSE end(b))
    [] type = 3 -> IF isBeforeOrEqual(a.active, b.active) THEN a ELSE b
    [] type = 4 -> IF isAfterOrEqual(a.active, b.active) THEN a ELSE b
    [] type = 5 -> IF spanLength(a) > spanLength(b) THEN a ELSE b
    [] type = 6 -> IF spanLength(a) < spanLength(b) THEN a ELSE b

MergeInit ==
  /\ selections \in SeqsUpTo(MergeSelections, MaxSelections) \ {<<>>}
  /\ saved \in SeqsUpTo(MergeSelections, MaxSelections)
  /\ merge = [outcome |-> "none", type |-> 0, reverse |-> FALSE,
              from |-> <<>>, add |-> <<>>, before |-> <<>>]

\* The size check of line 202 made before the append rule is looked at.
restore_withCurrentMutant(type, reverse) ==
  LET from == IF reverse THEN selections ELSE saved
      add  == IF reverse THEN saved ELSE selections
      call == [outcome |-> "none", type |-> type, reverse |-> reverse,
               from |-> from, add |-> add, before |-> selections]
  IN
  /\ merge.outcome = "none"
  /\ IF saved = <<>>
       THEN /\ merge' = [call EXCEPT !.outcome = "empty"]
            /\ UNCHANGED selections
     ELSE IF Len(from) # Len(add)
       THEN /\ merge' = [call EXCEPT !.outcome = "sizes"]
            /\ UNCHANGED selections
     ELSE IF type = 0
       THEN /\ selections' = from \o add
            /\ merge' = [call EXCEPT !.outcome = "ok"]
     ELSE /\ selections' = [i \in 1..Len(from) |-> Combine(type, from[i], add[i])]
          /\ merge' = [call EXCEPT !.outcome = "ok"]
  /\ UNCHANGED saved

\* lines 167-272
restore_withCurrent(type, reverse) ==
  LET from == IF reverse THEN selections ELSE saved
      add  == IF reverse THEN saved ELSE selections
      call == [outcome |-> "none", type |-> type, reverse |-> reverse,
               from |-> from, add |-> add, before |-> selections]
  IN
  /\ merge.outcome = "none"
  /\ IF saved = <<>>
       THEN /\ merge' = [call EXCEPT !.outcome = "empty"]
            /\ UNCHANGED selections
     ELSE IF type = 0
       THEN /\ selections' = from \o add
            /\ merge' = [call EXCEPT !.outcome = "ok"]
     ELSE IF Len(from) # Len(add)
       THEN /\ merge' = [call EXCEPT !.outcome = "sizes"]
            /\ UNCHANGED selections
     ELSE /\ selections' = [i \in 1..Len(from) |-> Combine(type, from[i], add[i])]
          /\ merge' = [call EXCEPT !.outcome = "ok"]
  /\ UNCHANGED saved

RestoreWithCurrent ==
  /\ \E type \in Rules, reverse \in BOOLEAN : restore_withCurrent(type, reverse)
  /\ UNCHANGED <<modeVars, lineVars, dirVars, saveVars>>

----------------------------------------------------------------------------
(* extendToLines and trimLines                                              *)

LineSelections == {Selection(a, b) : a \in Positions, b \in Positions}

\* The mapper of lines 467-490 with the branch of lines 475-478 left out.
extendToLinesOneMutant(selection) ==
  LET s == start(selection)
      e == end(selection)
      newStart == Pos(s.line, 0)
      newEnd ==
        IF e.line + 1 < lineCount
          THEN Pos(e.line + 1, 0)
          ELSE Pos(e.line, LineLens[e.line + 1])
  IN <<fromStartEnd(newStart, newEnd, isReversed(selection))>>

\* lines 467-490: the mapper of extendToLines
extendToLinesOne(selection) ==
  LET s == start(selection)
      e == end(selection)
      newStart == Pos(s.line, 0)
      newEnd ==
        IF e.character = 0
          THEN e
        ELSE IF e.line + 1 < lineCount
          THEN Pos(e.line + 1, 0)
          ELSE Pos(e.line, LineLens[e.line + 1])
  IN <<fromStartEnd(newStart, newEnd, isReversed(selection))>>

\* lines 501-522: the mapper of trimLines
trimLinesOne(selection) ==
  LET s == start(selection)
      e == end(selection)
      newStart == IF s.character = 0 THEN s ELSE Pos(s.line + 1, 0)
      newEnd == Pos(e.line, 0)
  IN IF isAfterOrEqual(newStart, newEnd)
       THEN <<>>
     ELSE IF isReversed(selection) /\ newStart.line + 1 # newEnd.line
       THEN <<Selection(newEnd, newStart)>>
       ELSE <<Selection(newStart, newEnd)>>

MaxCommands == 2   \* selection commands run in one behaviour

LinesInit ==
  /\ lsel \in SeqsUpTo(LineSelections, MaxSelections) \ {<<>>}
  /\ lorig = lsel
  /\ lops = <<>>

\* lines 466-491
extendToLines ==
  /\ Len(lops) < MaxCommands
  /\ lsel' = UpdateByIndex([i \in 1..Len(lsel) |-> extendToLinesOne(lsel[i])])
  /\ lops' = Append(lops, "extendToLines")
  /\ UNCHANGED lorig
  /\ UNCHANGED <<modeVars, mergeVars, dirVars, saveVars>>

\* lines 500-523
trimLines ==
  /\ Len(lops) < MaxCommands
  /\ lsel' = UpdateByIndex([i \in 1..Len(lsel) |-> trimLinesOne(lsel[i])])
  /\ lops' = Append(lops, "trimLines")
  /\ UNCHANGED lorig
  /\ UNCHANGED <<modeVars, mergeVars, dirVars, saveVars>>

----------------------------------------------------------------------------
(* changeDirection                                                          *)

\* A selection with the mark Selections.isNonDirectional reads.
DirPositions == {Pos(0, 0), Pos(0, 1), Pos(1, 0)}
DirSelections ==
  {[anchor |-> a, active |-> b, nonDirectional |-> n] :
     a \in DirPositions, b \in DirPositions, n \in BOOLEAN}

isNonDirectional(sel) == sel.nonDirectional

\* new vscode.Selection(anchor, active): a fresh, unmarked selection
NewSelection(anchor, active) ==
  [anchor |-> anchor, active |-> active, nonDirectional |-> FALSE]

Directions == {"Backward", "Forward", "omitted"}

\* lines 608-611
faceBackwardOne(selection) ==
  IF isReversed(selection) \/ isEmpty(selection) \/ isNonDirectional(selection)
    THEN <<selection>>
    ELSE <<NewSelection(end(selection), start(selection))>>

\* lines 615-618
faceForwardOne(selection) ==
  IF isReversed(selection)
    THEN <<NewSelection(start(selection), end(selection))>>
    ELSE <<selection>>

\* lines 622-625
flipOne(selection) ==
  IF isEmpty(selection) \/ isNonDirectional(selection)
    THEN <<selection>>
    ELSE <<NewSelection(selection.active, selection.anchor)>>

DirInit ==
  /\ dsel \in SeqsUpTo(DirSelections, MaxSelections) \ {<<>>}
  /\ dorig = dsel
  /\ dops = <<>>

\* lines 605-628
changeDirection(direction) ==
  /\ Len(dops) < MaxCommands
  /\ dsel' = UpdateByIndex([i \in 1..Len(dsel) |->
                 CASE direction = "Backward" -> faceBackwardOne(dsel[i])
                   [] direction = "Forward" -> faceForwardOne(dsel[i])
                   [] OTHER -> flipOne(dsel[i])])
  /\ dops' = Append(dops, direction)
  /\ UNCHANGED dorig

ChangeDirection ==
  /\ \E direction \in Directions : changeDirection(direction)
  /\ UNCHANGED <<modeVars, mergeVars, lineVars, saveVars>>

----------------------------------------------------------------------------
(* save                                                                     *)

Registers == {"caret", "a"}
MaxSaves == 3   \* TrackedSelection.Sets created in one behaviour

\* state: "none" (not created) | "live" | "disposed"; owner: the register it
\* was saved to; until: it is disposed of on `until` events; released: times
\* its document subscription was released; disposeCalls: dispose() calls made
\* on it; saveDisposeCalls: those made by save.
NoSet == [state |-> "none", owner |-> "none", until |-> FALSE, released |-> 0,
          disposeCalls |-> 0, saveDisposeCalls |-> 0]

SaveInit ==
  /\ regSet = [r \in Registers |-> 0]
  /\ sets = [id \in 1..MaxSaves |-> NoSet]

Created == {id \in 1..MaxSaves : sets[id].state # "none"}

\* TrackedSelection.Set.dispose(): releases the set's subscription the first
\* time it is called and is a no-op after that.
DisposeSet(ss, id, bySave) ==
  [ss EXCEPT ![id].state = "disposed",
             ![id].released = IF ss[id].state = "live" THEN @ + 1 ELSE @,
             ![id].disposeCalls = @ + 1,
             ![id].saveDisposeCalls = IF bySave THEN @ + 1 ELSE @]

\* save with line 132 replacing the set and not disposing of the previous one
saveMutant(register, style, until) ==
  LET id == Cardinality(Created) + 1 IN
  /\ id <= MaxSaves
  /\ IF style = "invalid"
       THEN UNCHANGED <<regSet, sets>>
       ELSE /\ sets' = [sets EXCEPT ![id] =
                  [NoSet EXCEPT !.state = "live", !.owner = register,
                                !.until = until]]
            /\ regSet' = [regSet EXCEPT ![register] = id]

\* lines 100-133.  style: "none" | "valid" | "invalid" (the validator of
\* line 116 throws); until: whether `until` events were given (lines 128-130).
save(register, style, until) ==
  LET id == Cardinality(Created) + 1
      previous == regSet[register]
  IN
  /\ id <= MaxSaves
  /\ IF style = "invalid"
       THEN UNCHANGED <<regSet, sets>>
       ELSE LET created == [sets EXCEPT ![id] =
                  [NoSet EXCEPT !.state = "live", !.owner = register,
                                !.until = until]]
            IN /\ regSet' = [regSet EXCEPT ![register] = id]
               /\ sets' = IF previous = 0 THEN created
                          ELSE DisposeSet(created, previous, TRUE)

Save ==
  /\ \E r \in Registers, style \in {"none", "valid", "invalid"}, until \in BOOLEAN :
       save(r, style, until)
  /\ UNCHANGED <<modeVars, mergeVars, lineVars, dirVars>>

\* lines 124-130: an `until` event disposes of the AutoDisposable that wraps
\* the set, and of the set with it; the register keeps holding the set.
UntilEvent ==
  /\ \E id \in Created :
       /\ sets[id].state = "live"
       /\ sets[id].until
       /\ sets' = DisposeSet(sets, id, FALSE)
  /\ UNCHANGED regSet
  /\ UNCHANGED <<modeVars, mergeVars, lineVars, dirVars>>

----------------------------------------------------------------------------
(* Specifications                                                           *)

MergeIdle == selections = <<>> /\ saved = <<>> /\ merge = <<>>
LinesIdle == lsel = <<>> /\ lorig = <<>> /\ lops = <<>>
DirIdle   == dsel = <<>> /\ dorig = <<>> /\ dops = <<>>
SaveIdle  == regSet = <<>> /\ sets = <<>>
ModeIdle ==
  /\ modes = [n \in ModeNames |-> "live"]
  /\ mode = "normal"
  /\ pc = "idle"
  /\ target = "normal"
  /\ initialMode = "normal"
  /\ count = 0
  /\ disposables = <<>>
  /\ disposed = FALSE
  /\ pendingOwn = FALSE
  /\ result = "none"
  /\ lastCall = [name |-> "normal", cnt |-> [given |-> FALSE, value |-> 0]]
  /\ obs = ObsInit

Init == ModeInit /\ MergeIdle /\ LinesIdle /\ DirIdle /\ SaveIdle
Next == ModeNext
Spec == Init /\ [][Next]_vars

InitMerge == ModeIdle /\ MergeInit /\ LinesIdle /\ DirIdle /\ SaveIdle
NextMerge == RestoreWithCurrent
SpecMerge == InitMerge /\ [][NextMerge]_vars

InitLines == ModeIdle /\ MergeIdle /\ LinesInit /\ DirIdle /\ SaveIdle
NextLines == extendToLines \/ trimLines
SpecLines == InitLines /\ [][NextLines]_vars

InitDir == ModeIdle /\ MergeIdle /\ LinesIdle /\ DirInit /\ SaveIdle
NextDir == ChangeDirection
SpecDir == InitDir /\ [][NextDir]_vars

InitSave == ModeIdle /\ MergeIdle /\ LinesIdle /\ DirIdle /\ SaveInit
NextSave == Save \/ UntilEvent
SpecSave == InitSave /\ [][NextSave]_vars

----------------------------------------------------------------------------
(* Claims about toMode, checked under Spec                                  *)

CounterStarted == pc # "idle" /\ obs.startCount >= 1

\* C1 as stated: with no ChangeTextEditor(Mode) entry and no visibility
\* change since the switch, the mode is the target until the N-th qualifying
\* entry appended after the switch and the initial mode from then on.
C1_RevertAtNthSinceSwitch ==
  (CounterStarted /\ ~obs.cteSwitch /\ ~obs.visibility) =>
     IF obs.qualSwitch < obs.startCount
       THEN mode = target
       ELSE mode = initialMode

\* C1 amended: the qualifying entries that count are those appended after the
\* deferred installation of the listener; entries appended between the switch
\* and the installation are not seen.  Until the N-th of them the mode is the
\* target and the listener stays subscribed; from the N-th on the mode is the
\* initial mode, reverted once.
C1_RevertAtNthSinceInstall ==
  (CounterStarted /\ ~obs.cteInstall /\ ~obs.visibility) =>
     IF obs.qualInstall < obs.startCount
       THEN /\ mode = target
            /\ obs.revertCalls = 0
            /\ pc = "installed" => "recorder" \in Range(disposables)
       ELSE /\ mode = initialMode
            /\ obs.revertCalls = 1
            /\ "recorder" \notin Range(disposables)

C1_Witness ==
  /\ pc = "installed"
  /\ obs.startCount = 2
  /\ obs.qualInstall = 2
  /\ obs.ignoredInstall >= 1
  /\ ~obs.cteInstall /\ ~obs.visibility
  /\ target # initialMode
  /\ mode = initialMode

\* C2: a ChangeTextEditor or ChangeTextEditorMode entry handed to the listener
\* reverts the mode to initialMode and removes the recorder subscription in
\* the same step, whatever the remaining count, and leaves the count as it was.
C2_ImmediateRevert ==
  [][ ( /\ obs'.nObserved = obs.nObserved + 1
        /\ obs'.lastObserved.type \in {"ChangeTextEditor", "ChangeTextEditorMode"} )
      => ( /\ mode' = initialMode
           /\ "recorder" \notin Range(disposables')
           /\ count' = count ) ]_vars

C2_Witness ==
  /\ obs.trigger = "entry"
  /\ obs.lastObserved.type = "ChangeTextEditorMode"
  /\ obs.startCount = 2
  /\ count = 1
  /\ target # initialMode
  /\ mode = initialMode

RevertExactlyOnce ==
  /\ obs.revertCalls <= 1
  /\ obs.disposeCalls >= 1 => obs.revertCalls = 1

\* C8: a toMode call naming a mode that is not registered or is pending
\* deletion fails, leaves the active mode as it was, calls switchToMode not
\* at all and creates no visibility or recorder subscription.
C8_FailFast ==
  [][ ( /\ obs'.calls = obs.calls + 1
        /\ modes[lastCall'.name] \in {"absent", "pending"} )
      => ( /\ result' = "error"
           /\ mode' = mode
           /\ obs'.switchCalls = obs.switchCalls
           /\ disposables' = disposables
           /\ pc' = pc ) ]_vars

C8_Witness ==
  /\ result = "error"
  /\ modes[lastCall.name] = "pending"
  /\ lastCall.cnt.given /\ lastCall.cnt.value >= 1
  /\ mode = "normal"
  /\ disposables = <<>>

\* C10: a count that is omitted or 0 gives a plain switch (no disposable, no
\* revert); while the listener is subscribed the count is the argument minus
\* one per qualifying entry; a revert triggered by counting leaves the count
\* at exactly 0; and a switch started with a negative count, with no
\* ChangeTextEditor(Mode) entry observed and no visibility change, stays in
\* the target mode.
C10_CountDecides ==
  /\ (result = "ok" /\ (~lastCall.cnt.given \/ lastCall.cnt.value = 0))
       => ( /\ pc = "idle"
            /\ mode = lastCall.name
            /\ disposables = <<>>
            /\ obs.revertCalls = 0 )
  /\ "recorder" \in Range(disposables)
       => count = obs.startCount - obs.qualInstall
  /\ obs.trigger = "count"
       => (count = 0 /\ obs.startCount >= 1 /\ obs.qualInstall >= obs.startCount)
  /\ (pc # "idle" /\ obs.startCount < 0 /\ ~obs.cteInstall /\ ~obs.visibility)
       => ( /\ mode = target
            /\ obs.revertCalls = 0
            /\ obs.trigger = "none" )

C10_Witness ==
  /\ pc = "installed"
  /\ obs.startCount = -1
  /\ count = -3
  /\ target # initialMode
  /\ mode = target
  /\ "recorder" \in Range(disposables)

----------------------------------------------------------------------------
(* Claims about restore_withCurrent, checked under SpecMerge                *)

CallFrom == IF merge.reverse THEN merge.before ELSE saved
CallAdd  == IF merge.reverse THEN saved ELSE merge.before

OffsetLength(sel) ==
  LET a == offsetAt(sel.anchor)
      b == offsetAt(sel.active)
  IN IF a < b THEN b - a ELSE a - b

\* C4 as stated: under the rules longest (5) and shortest (6), a pair of
\* index-aligned selections of equal character-offset length yields the first
\* operand, from[i].
C4_TiesFavorFirst ==
  (merge.outcome = "ok" /\ merge.type \in {5, 6}) =>
    \A i \in 1..Len(CallFrom) :
      OffsetLength(CallFrom[i]) = OffsetLength(CallAdd[i])
        => selections[i] = CallFrom[i]

\* C5: under every rule but append, operands of different lengths make the
\* command fail and leave the selections as they were; under append the
\* command never fails on the sizes and, the register holding selections,
\* sets the selections to from followed by add.
C5_SizeMismatch ==
  /\ (merge.outcome # "none" /\ merge.type # 0 /\ Len(CallFrom) # Len(CallAdd))
       => (merge.outcome \in {"sizes", "empty"} /\ selections = merge.before)
  /\ (merge.outcome # "none" /\ merge.type = 0)
       => ( /\ merge.outcome # "sizes"
            /\ saved # <<>> => ( /\ merge.outcome = "ok"
                                  /\ selections = CallFrom \o CallAdd ) )

C5_Witness ==
  /\ merge.outcome = "sizes"
  /\ merge.type = 5
  /\ Len(merge.before) = 2
  /\ Len(saved) = 1
  /\ selections = merge.before

----------------------------------------------------------------------------
(* Claims about trimLines and extendToLines, checked under SpecLines        *)

Aligned(sel) == sel.anchor.character = 0 /\ sel.active.character = 0

TrimmedThenExtended == lops = <<"trimLines", "extendToLines">>

KeptAsIs(sel) ==
  /\ Aligned(sel)
  /\ sel.anchor # sel.active
  /\ sel.anchor.line < sel.active.line \/ sel.anchor.line - sel.active.line >= 2

----------------------------------------------------------------------------
(* Claims about changeDirection, checked under SpecDir                      *)

EmptyKeptAndMarkedKeptUnlessForward ==
  Len(dops) = 1 =>
    /\ Len(dsel) = Len(dorig)
    /\ \A i \in 1..Len(dorig) :
         ( \/ dorig[i].anchor = dorig[i].active
           \/ (dorig[i].nonDirectional /\ dops[1] # "Forward") )
           => ( /\ dsel[i].anchor = dorig[i].anchor
                /\ dsel[i].active = dorig[i].active )

----------------------------------------------------------------------------
(* Claims about save, checked under SpecSave                                *)

SavedTo(r) == {id \in Created : sets[id].owner = r}

MostRecent(r) ==
  IF SavedTo(r) = {} THEN 0
  ELSE CHOOSE id \in SavedTo(r) : \A other \in SavedTo(r) : other <= id

====
